---- MODULE Spec2Model ----
(***************************************************************************)
(* A model of the n-body simulation library (src/src/lib.rs, module        *)
(* n_body) and of its driver (src/src/main.rs).                            *)
(*                                                                         *)
(* Numbers.  The program computes in f32.  An f32 is modelled as a record  *)
(* [k, v]: k = "fin" is the finite value v / Scale (a fixed-point grid in  *)
(* place of the f32 grid; every operation rounds its exact result to the   *)
(* nearest grid point, sign-symmetrically, as an f32 operation does),      *)
(* k = "inf" is +infinity (v = 1) or -infinity (v = -1), k = "nan" is NaN. *)
(* Zero carries no sign: a division of a non-zero finite value by zero     *)
(* takes the sign of the dividend.  Magnitudes stay far below the f32      *)
(* range in every specification below, so overflow to infinity does not    *)
(* arise from finite operands.                                             *)
(*                                                                         *)
(* Units.  Masses are in units for which the gravitational constant is     *)
(* the grid value 1.0 (lib.rs sets G = 6.67430e-11 for SI units).          *)
(***************************************************************************)
EXTENDS Integers, Sequences, FiniteSets, TLC

VARIABLES
    bodies,     \* the Bodies struct (lib.rs 93-102); `bodies` in main.rs 58
    log,        \* history: the calls made on `bodies` so far, oldest first
    snap,       \* history: bodies.bodies as it was when the last apply_force was called
    pc,         \* position of main (main.rs 55-308)
    is_paused,  \* main.rs 88
    delta,      \* main.rs 97: the frame time, where a run keeps it constant
    result,     \* values returned by the pure functions of the force model
    recorded    \* history: every position Body::update has pushed, oldest first

vars == <<bodies, log, snap, pc, is_paused, delta, result, recorded>>

-----------------------------------------------------------------------------
(* Bounds of the model *)

Scale == 100

MaxBodies == 3

MaxCalls == 3

MaxFrames == 2

MaxSteps == 505

\* lib.rs 52: the trajectory keeps at most this many positions
TrajectoryCap == 500

-----------------------------------------------------------------------------
(* f32 values and operations *)

Fin(n) == [k |-> "fin", v |-> n]

NaN == [k |-> "nan", v |-> 0]

Inf(s) == [k |-> "inf", v |-> s]

Num(n) == Fin(n * Scale)

Zero == Fin(0)

One == Fin(Scale)

Half == Fin(Scale \div 2)

Abs(n) == IF n < 0 THEN -n ELSE n

Sgn(n) == IF n < 0 THEN -1 ELSE IF n > 0 THEN 1 ELSE 0

\* a / b rounded to the nearest integer, ties away from zero (b # 0)
RoundDiv(a, b) == Sgn(a) * Sgn(b) * ((2 * Abs(a) + Abs(b)) \div (2 * Abs(b)))

FNeg(a) ==
    CASE a.k = "fin" -> Fin(-a.v)
      [] a.k = "inf" -> Inf(-a.v)
      [] OTHER -> NaN

FAdd(a, b) ==
    CASE a.k = "nan" \/ b.k = "nan" -> NaN
      [] a.k = "inf" /\ b.k = "inf" -> IF a.v = b.v THEN a ELSE NaN
      [] a.k = "inf" -> a
      [] b.k = "inf" -> b
      [] OTHER -> Fin(a.v + b.v)

FSub(a, b) == FAdd(a, FNeg(b))

FMul(a, b) ==
    CASE a.k = "nan" \/ b.k = "nan" -> NaN
      [] a.k = "inf" \/ b.k = "inf" ->
            IF Sgn(a.v) * Sgn(b.v) = 0 THEN NaN ELSE Inf(Sgn(a.v) * Sgn(b.v))
      [] OTHER -> Fin(RoundDiv(a.v * b.v, Scale))

FDiv(a, b) ==
    CASE a.k = "nan" \/ b.k = "nan" -> NaN
      [] a.k = "inf" /\ b.k = "inf" -> NaN
      [] a.k = "inf" -> Inf(IF b.v < 0 THEN -a.v ELSE a.v)
      [] b.k = "inf" -> Zero
      [] b.v = 0 -> IF a.v = 0 THEN NaN ELSE Inf(Sgn(a.v))
      [] OTHER -> Fin(RoundDiv(a.v * Scale, b.v))

\* f32::max: a NaN operand is ignored
FMax(a, b) ==
    CASE a.k = "nan" -> b
      [] b.k = "nan" -> a
      [] a.k = "inf" -> IF a.v > 0 THEN a ELSE b
      [] b.k = "inf" -> IF b.v > 0 THEN b ELSE a
      [] OTHER -> IF a.v >= b.v THEN a ELSE b

RECURSIVE SqrtSearch(_, _, _)
\* the largest r in lo..hi with r * r <= n (lo * lo <= n)
SqrtSearch(n, lo, hi) ==
    IF lo >= hi THEN lo
    ELSE LET mid == (lo + hi + 1) \div 2
         IN  IF mid <= n \div mid THEN SqrtSearch(n, mid, hi)
             ELSE SqrtSearch(n, lo, mid - 1)

FSqrt(a) ==
    CASE a.k = "nan" -> NaN
      [] a.k = "inf" -> IF a.v > 0 THEN a ELSE NaN
      [] a.v < 0 -> NaN
      [] OTHER ->
            LET n == a.v * Scale
                r == SqrtSearch(n, 0, n + 1)
            IN  Fin(IF n - r * r > r THEN r + 1 ELSE r)

-----------------------------------------------------------------------------
(* Vec3 (glam), as used by lib.rs *)

Vec3_new(x, y, z) == <<x, y, z>>

VAdd(a, b) == <<FAdd(a[1], b[1]), FAdd(a[2], b[2]), FAdd(a[3], b[3])>>

VSub(a, b) == <<FSub(a[1], b[1]), FSub(a[2], b[2]), FSub(a[3], b[3])>>

VScale(a, s) == <<FMul(a[1], s), FMul(a[2], s), FMul(a[3], s)>>

VDivS(a, s) == <<FDiv(a[1], s), FDiv(a[2], s), FDiv(a[3], s)>>

length_squared(a) == FAdd(FAdd(FMul(a[1], a[1]), FMul(a[2], a[2])), FMul(a[3], a[3]))

length(a) == FSqrt(length_squared(a))

\* glam: self * self.length_recip(); the zero vector gives 0 * (1 / 0) = NaN
normalize(a) == VScale(a, FDiv(One, length(a)))

VZero == Vec3_new(Zero, Zero, Zero)

-----------------------------------------------------------------------------
(* Body (lib.rs 27-73) *)

G == One

RECURSIVE FPow(_, _)
FPow(a, n) == IF n = 0 THEN One ELSE FMul(FPow(a, n - 1), a)

RECURSIVE RootSearch(_, _, _)
\* the smallest grid value r in lo..hi whose 15th power is at least m
RootSearch(m, lo, hi) ==
    IF lo >= hi THEN lo
    ELSE LET mid == (lo + hi) \div 2
         IN  IF FPow(Fin(mid), 15).v >= m THEN RootSearch(m, lo, mid)
             ELSE RootSearch(m, mid + 1, hi)

\* mass.powf(1.0 / 15.0): NaN for a negative base, rounded up to the grid
powf15(mass) ==
    CASE mass.k = "nan" -> NaN
      [] mass.k = "inf" -> IF mass.v > 0 THEN mass ELSE NaN
      [] mass.v < 0 -> NaN
      [] OTHER -> Fin(RootSearch(mass.v, 0, 2 * Scale))

Body_new(position, velocity, mass, name) ==
    [position |-> position,
     velocity |-> velocity,
     mass |-> mass,
     trajectory |-> <<>>,
     name |-> name,
     radius |-> powf15(mass)]

\* Body::update with the cap test `>=` in place of `>`
Body_update_early(self, dt) ==
    LET position == VAdd(self.position, VScale(self.velocity, dt))
        pushed == Append(self.trajectory, position)
    IN  [self EXCEPT
            !.position = position,
            !.trajectory = IF Len(pushed) >= TrajectoryCap THEN Tail(pushed) ELSE pushed]

Body_update(self, dt) ==
    LET position == VAdd(self.position, VScale(self.velocity, dt))
        pushed == Append(self.trajectory, position)
    IN  [self EXCEPT
            !.position = position,
            !.trajectory = IF Len(pushed) > TrajectoryCap THEN Tail(pushed) ELSE pushed]

\* Body::apply_force that also moves the body
Body_apply_force_moves(self, force, dt) ==
    LET acceleration == VDivS(force, self.mass)
        velocity == VAdd(self.velocity, VScale(acceleration, dt))
    IN  [self EXCEPT
            !.velocity = velocity,
            !.position = VAdd(self.position, VScale(velocity, dt))]

Body_apply_force(self, force, dt) ==
    LET acceleration == VDivS(force, self.mass)
    IN  [self EXCEPT !.velocity = VAdd(self.velocity, VScale(acceleration, dt))]

-----------------------------------------------------------------------------
(* Force model (lib.rs 76-90) *)

gravitational_force(body1, body2) ==
    LET direction == VSub(body2.position, body1.position)
        distance == FMax(length(direction), One)
        force_magnitude ==
            FDiv(FMul(FMul(G, body1.mass), body2.mass), FMul(distance, distance))
    IN  VScale(normalize(direction), force_magnitude)

kinetic_energy(body) == FMul(FMul(Half, body.mass), length_squared(body.velocity))

potential_energy(body1, body2) ==
    LET distance == FMax(length(VSub(body2.position, body1.position)), One)
    IN  FDiv(FMul(FMul(FNeg(G), body1.mass), body2.mass), distance)

-----------------------------------------------------------------------------
(* Bodies (lib.rs 93-261) *)

\* Bodies::new that computes the averages as total / total_time
Bodies_new_divides ==
    [bodies |-> <<>>,
     total_potential_energy |-> Zero,
     total_kinetic_energy |-> Zero,
     time_averaged_potential_energy |-> FDiv(Zero, Zero),
     time_averaged_kinetic_energy |-> FDiv(Zero, Zero),
     total_time |-> Zero,
     kinetic_energy |-> Zero,
     potential_energy |-> Zero]

Bodies_new ==
    [bodies |-> <<>>,
     total_potential_energy |-> Zero,
     total_kinetic_energy |-> Zero,
     time_averaged_potential_energy |-> Zero,
     time_averaged_kinetic_energy |-> Zero,
     total_time |-> Zero,
     kinetic_energy |-> Zero,
     potential_energy |-> Zero]

Bodies_add_body(self, body) == [self EXCEPT !.bodies = Append(self.bodies, body)]

RECURSIVE TotalForce_self(_, _, _, _)
\* the inner loop without the test i != j
TotalForce_self(bs, i, j, total_force) ==
    IF j > Len(bs) THEN total_force
    ELSE TotalForce_self(bs, i, j + 1, VAdd(total_force, gravitational_force(bs[i], bs[j])))

RECURSIVE TotalForce(_, _, _, _)
\* lib.rs 231-236: the inner loop, from index j on, total_force so far
TotalForce(bs, i, j, total_force) ==
    IF j > Len(bs) THEN total_force
    ELSE TotalForce(bs, i, j + 1,
            IF i # j THEN VAdd(total_force, gravitational_force(bs[i], bs[j]))
            ELSE total_force)

RECURSIVE ApplyForceLoop(_, _, _)
\* lib.rs 229-238: the outer loop, from index i on; body i is mutated before
\* the forces on the bodies after it are summed
ApplyForceLoop(bs, i, dt) ==
    IF i > Len(bs) THEN bs
    ELSE ApplyForceLoop(
            [bs EXCEPT ![i] = Body_apply_force(bs[i], TotalForce(bs, i, 1, VZero), dt)],
            i + 1, dt)

Bodies_apply_force(self, dt) == [self EXCEPT !.bodies = ApplyForceLoop(self.bodies, 1, dt)]

RECURSIVE KineticSum(_, _, _)
KineticSum(bs, i, acc) ==
    IF i > Len(bs) THEN acc ELSE KineticSum(bs, i + 1, FAdd(acc, kinetic_energy(bs[i])))

Bodies_total_kinetic_energy(self) == KineticSum(self.bodies, 1, Zero)

\* an inner loop that starts at i
PairStart_self(i) == i

\* lib.rs 255: the first index of the inner loop of total_potential_energy
PairStart(i) == i + 1

RECURSIVE PotentialSum(_, _, _, _)
PotentialSum(bs, i, j, total_energy) ==
    IF i > Len(bs) THEN total_energy
    ELSE IF j > Len(bs) THEN PotentialSum(bs, i + 1, PairStart(i + 1), total_energy)
    ELSE PotentialSum(bs, i, j + 1, FAdd(total_energy, potential_energy(bs[i], bs[j])))

Bodies_total_potential_energy(self) == PotentialSum(self.bodies, 1, PairStart(1), Zero)

\* Bodies::update with `=` in place of `+=` for total_kinetic_energy
Bodies_update_assign(self, dt) ==
    LET moved == [self EXCEPT !.bodies = [i \in 1..Len(self.bodies) |-> Body_update(self.bodies[i], dt)]]
        ke == Bodies_total_kinetic_energy(moved)
        pe == Bodies_total_potential_energy(moved)
        tpe == FAdd(self.total_potential_energy, pe)
        tt == FAdd(self.total_time, dt)
    IN  [moved EXCEPT
            !.kinetic_energy = ke,
            !.potential_energy = pe,
            !.total_kinetic_energy = ke,
            !.total_potential_energy = tpe,
            !.total_time = tt,
            !.time_averaged_kinetic_energy = FDiv(ke, tt),
            !.time_averaged_potential_energy = FDiv(tpe, tt)]

Bodies_update(self, dt) ==
    LET moved == [self EXCEPT !.bodies = [i \in 1..Len(self.bodies) |-> Body_update(self.bodies[i], dt)]]
        ke == Bodies_total_kinetic_energy(moved)
        pe == Bodies_total_potential_energy(moved)
        tke == FAdd(self.total_kinetic_energy, ke)
        tpe == FAdd(self.total_potential_energy, pe)
        tt == FAdd(self.total_time, dt)
    IN  [moved EXCEPT
            !.kinetic_energy = ke,
            !.potential_energy = pe,
            !.total_kinetic_energy = tke,
            !.total_potential_energy = tpe,
            !.total_time = tt,
            !.time_averaged_kinetic_energy = FDiv(tke, tt),
            !.time_averaged_potential_energy = FDiv(tpe, tt)]

-----------------------------------------------------------------------------
(* The json crate's values, as parse_json reads them (lib.rs 155-202) *)

JNull == [t |-> "null"]

JStr(s) == [t |-> "string", s |-> s]

JNum(n) == [t |-> "number", n |-> n]

JArr(a) == [t |-> "array", a |-> a]

\* an object; a key the text does not have is held as JNull, which is what
\* indexing a missing key returns
JObj(name, position, velocity, mass) ==
    [t |-> "object", name |-> name, position |-> position,
     velocity |-> velocity, mass |-> mass]

\* value[key]: JNull unless value is an object
Field(value, key) == IF value.t = "object" THEN value[key] ELSE JNull

\* value[i], i counted from 0: JNull unless value is an array holding index i
At(value, i) ==
    IF value.t = "array" /\ i < Len(value.a) THEN value.a[i + 1] ELSE JNull

None == <<>>

Some(x) == <<x>>

as_str(value) == IF value.t = "string" THEN Some(value.s) ELSE None

\* as_f64 and the cast `as f32`, as_f32: the number, on the grid
as_f64(value) == IF value.t = "number" THEN Some(value.n) ELSE None

as_f32(value) == IF value.t = "number" THEN Some(value.n) ELSE None

members(value) == IF value.t = "array" THEN value.a ELSE <<>>

\* lib.rs 172-182 and 184-194: three numbers at indices 0, 1, 2, or None
ParseVec3(value) ==
    LET x == as_f64(At(value, 0))
        y == as_f64(At(value, 1))
        z == as_f64(At(value, 2))
    IN  IF x # None /\ y # None /\ z # None
        THEN Some(Vec3_new(x[1], y[1], z[1]))
        ELSE None

\* the loop body with a mass of 0.0 where the record has no number for it
ParseRecord_default_mass(body) ==
    LET name == as_str(Field(body, "name"))
        position == ParseVec3(Field(body, "position"))
        velocity == ParseVec3(Field(body, "velocity"))
        mass == as_f32(Field(body, "mass"))
    IN  IF name = None THEN None
        ELSE IF position = None THEN None
        ELSE IF velocity = None THEN None
        ELSE Some(Body_new(position[1], velocity[1],
                           IF mass = None THEN Zero ELSE mass[1], name[1]))

\* lib.rs 164-204: one record; the Body it makes, or None when the loop continues
ParseRecord(body) ==
    LET name == as_str(Field(body, "name"))
        position == ParseVec3(Field(body, "position"))
        velocity == ParseVec3(Field(body, "velocity"))
        mass == as_f32(Field(body, "mass"))
    IN  IF name = None THEN None
        ELSE IF position = None THEN None
        ELSE IF velocity = None THEN None
        ELSE IF mass = None THEN None
        ELSE Some(Body_new(position[1], velocity[1], mass[1], name[1]))

RECURSIVE ParseLoop(_, _, _)
\* lib.rs 163-207: the loop over parsed.members(), from index k on
ParseLoop(self, ms, k) ==
    IF k > Len(ms) THEN self
    ELSE LET made == ParseRecord(ms[k])
         IN  ParseLoop(IF made = None THEN self ELSE Bodies_add_body(self, made[1]), ms, k + 1)

\* a load that empties the value before it fails
SourceFailure_clears(self, file) == Bodies_new

\* lib.rs 141-161: what a failure to open, read or parse the file leaves
SourceFailure(self, file) == self

\* file.path is the file_path argument; file.status: "open_error", "read_error", "parse_error" or "ok" (then
\* file.json is the parsed value)
Bodies_parse_json(self, file) ==
    IF file.status # "ok" THEN SourceFailure(self, file)
    ELSE ParseLoop(self, members(file.json), 1)

-----------------------------------------------------------------------------
(* Inputs *)

V3(x, y, z) == Vec3_new(Num(x), Num(y), Num(z))

JV3(x, y, z) == JArr(<<JNum(Num(x)), JNum(Num(y)), JNum(Num(z))>>)

\* the step lengths a caller passes (get_frame_time is 0.0 on a first frame)
Dts == {Zero, One}

\* the bodies a caller hands to add_body
BodyInputs ==
    {Body_new(V3(0, 0, 0), V3(1, 0, -1), Num(1), "added 1"),
     Body_new(V3(0, 2, 0), V3(0, 0, 0), Num(2), "added 2")}

FileOpenError == [path |-> "absent.json", status |-> "open_error", json |-> JNull]

FileReadError == [path |-> "unreadable.json", status |-> "read_error", json |-> JNull]

FileParseError == [path |-> "broken.json", status |-> "parse_error", json |-> JNull]

\* three records, the second without "mass"; the other two have equal masses
\* and are at rest
FileMissingMass ==
    [path |-> "missing_mass.json", status |-> "ok",
     json |-> JArr(<<
        JObj(JStr("Body 1"), JV3(0, 0, 0), JV3(0, 0, 0), JNum(Num(2))),
        JObj(JStr("Body 2"), JV3(1, 1, 1), JV3(0, 0, 0), JNull),
        JObj(JStr("Body 3"), JV3(3, 4, 0), JV3(0, 0, 0), JNum(Num(2)))>>)]

\* a name that is a number, a position of two numbers, a velocity holding a
\* string, a mass that is a string, an element that is no object, and one
\* record whose position has a fourth element
FileBadFields ==
    [path |-> "bad_fields.json", status |-> "ok",
     json |-> JArr(<<
        JObj(JNum(Num(7)), JV3(0, 0, 0), JV3(0, 0, 0), JNum(Num(1))),
        JObj(JStr("short"), JArr(<<JNum(Num(1)), JNum(Num(2))>>), JV3(0, 0, 0), JNum(Num(1))),
        JObj(JStr("text"), JV3(0, 0, 0),
             JArr(<<JNum(Num(1)), JStr("x"), JNum(Num(0))>>), JNum(Num(1))),
        JObj(JStr("heavy"), JV3(0, 0, 0), JV3(0, 0, 0), JStr("5.0e16")),
        JNum(Num(3)),
        JObj(JStr("long"),
             JArr(<<JNum(Num(2)), JNum(Num(0)), JNum(Num(0)), JNum(Num(9))>>),
             JV3(0, 1, 0), JNum(Num(1)))>>)]

\* well-formed JSON that is an object, not a list
FileNotAList ==
    [path |-> "object.json", status |-> "ok",
     json |-> JObj(JStr("Body 1"), JV3(0, 0, 0), JV3(0, 0, 0), JNum(Num(1)))]

\* three moving bodies of different masses
FileMoving ==
    [path |-> "moving.json", status |-> "ok",
     json |-> JArr(<<
        JObj(JStr("Body 1"), JV3(4, 0, 3), JV3(0, 1, 0), JNum(Num(2))),
        JObj(JStr("Body 2"), JV3(0, 0, 0), JV3(-1, 0, 0), JNum(Num(1))),
        JObj(JStr("Body 3"), JV3(0, -2, 0), JV3(0, 0, 1), JNum(Num(3)))>>)]

\* a body of mass zero and one of mass one
FileZeroMass ==
    [path |-> "zero_mass.json", status |-> "ok",
     json |-> JArr(<<
        JObj(JStr("ghost"), JV3(0, 0, 2), JV3(0, 0, 0), JNum(Zero)),
        JObj(JStr("rock"), JV3(0, 0, 0), JV3(0, 0, 0), JNum(Num(1)))>>)]

Files ==
    <<FileOpenError, FileReadError, FileParseError, FileMissingMass,
      FileBadFields, FileNotAList, FileMoving, FileZeroMass>>

-----------------------------------------------------------------------------
(* The calls on a Bodies value, with the history they leave *)

Last(q) == q[Len(q)]

\* a call: its name, its dt (Zero where it has none), the index in Files of
\* the file it read (0 where it read none), and the instantaneous energies
\* the value held when it returned
Entry(op, dt, file, after) ==
    [op |-> op, dt |-> dt, file |-> file,
     ke |-> after.kinetic_energy, pe |-> after.potential_energy]

Call_add_body(body) ==
    /\ bodies' = Bodies_add_body(bodies, body)
    /\ log' = Append(log, Entry("add_body", Zero, 0, bodies'))
    /\ UNCHANGED snap

Call_parse_json(f) ==
    /\ bodies' = Bodies_parse_json(bodies, Files[f])
    /\ log' = Append(log, Entry("parse_json", Zero, f, bodies'))
    /\ UNCHANGED snap

Call_apply_force(dt) ==
    /\ bodies' = Bodies_apply_force(bodies, dt)
    /\ log' = Append(log, Entry("apply_force", dt, 0, bodies'))
    /\ snap' = bodies.bodies

Call_update(dt) ==
    /\ bodies' = Bodies_update(bodies, dt)
    /\ log' = Append(log, Entry("update", dt, 0, bodies'))
    /\ UNCHANGED snap

-----------------------------------------------------------------------------
(* Spec: a caller of the library makes any calls in any order *)

NoResult == [force |-> None, pe |-> None, ke |-> None]

Init ==
    /\ bodies = Bodies_new
    /\ log = <<>>
    /\ snap = <<>>
    /\ pc = "caller"
    /\ is_paused = FALSE
    /\ delta = Zero
    /\ result = NoResult
    /\ recorded = <<>>

AddBody ==
    /\ Len(log) < MaxCalls
    /\ Len(bodies.bodies) < MaxBodies
    /\ \E body \in BodyInputs : Call_add_body(body)
    /\ UNCHANGED <<pc, is_paused, delta, result, recorded>>

ParseJson ==
    /\ Len(log) < MaxCalls
    /\ \E f \in 1..Len(Files) :
          /\ Len(Bodies_parse_json(bodies, Files[f]).bodies) <= MaxBodies
          /\ Call_parse_json(f)
    /\ UNCHANGED <<pc, is_paused, delta, result, recorded>>

ApplyForce ==
    /\ Len(log) < MaxCalls
    /\ \E dt \in Dts : Call_apply_force(dt)
    /\ UNCHANGED <<pc, is_paused, delta, result, recorded>>

Update ==
    /\ Len(log) < MaxCalls
    /\ \E dt \in Dts : Call_update(dt)
    /\ UNCHANGED <<pc, is_paused, delta, result, recorded>>

Next == AddBody \/ ParseJson \/ ApplyForce \/ Update

Spec == Init /\ [][Next]_vars

-----------------------------------------------------------------------------
(* SpecMain: the program of main.rs *)

InitMain ==
    /\ bodies = Bodies_new
    /\ log = <<>>
    /\ snap = <<>>
    /\ pc = "start"
    /\ is_paused = FALSE
    /\ delta = Zero
    /\ result = NoResult
    /\ recorded = <<>>

\* main.rs 75: bodies.bodies[0] panics when there is no body
AfterLoad(loaded) == IF Len(loaded.bodies) = 0 THEN "panicked" ELSE "loop"

\* the loop iterations that reached line 189
Frames == Cardinality({i \in 1..Len(log) : log[i].op = "update"})

\* main.rs 58-91: the load at startup, and the camera set beside body 0
Main_start ==
    /\ pc = "start"
    /\ \E f \in 1..Len(Files) : Call_parse_json(f)
    /\ pc' = AfterLoad(bodies')
    /\ UNCHANGED <<is_paused, delta, result, recorded>>

\* main.rs 101-103: Escape leaves the loop
Main_quit ==
    /\ pc = "loop"
    /\ pc' = "exited"
    /\ UNCHANGED <<bodies, log, snap, is_paused, delta, result, recorded>>

\* main.rs 112-125: an iteration that ends at `continue`, paused
Main_frame_paused ==
    /\ pc = "loop"
    /\ \E space \in BOOLEAN : is_paused' = (is_paused # space)
    /\ is_paused'
    /\ UNCHANGED <<bodies, log, snap, pc, delta, result, recorded>>

\* main.rs 93-306: an iteration that is not paused and without the R key
Main_frame ==
    /\ pc = "loop"
    /\ Frames < MaxFrames
    /\ \E space \in BOOLEAN : is_paused' = (is_paused # space)
    /\ ~is_paused'
    /\ \E dt \in Dts :
          /\ delta' = dt
          /\ bodies' = Bodies_update(Bodies_apply_force(bodies, dt), dt)
          /\ log' = log \o <<Entry("apply_force", dt, 0, bodies),
                             Entry("update", dt, 0, bodies')>>
          /\ snap' = bodies.bodies
    /\ UNCHANGED <<pc, result, recorded>>

\* main.rs 93-306: an iteration that is not paused, with the R key (129-133)
Main_frame_restart ==
    /\ pc = "loop"
    /\ Frames < MaxFrames
    /\ \E space \in BOOLEAN : is_paused' = (is_paused # space)
    /\ ~is_paused'
    /\ \E dt \in Dts, f \in 1..Len(Files) :
          LET loaded == Bodies_parse_json(Bodies_new, Files[f])
          IN  /\ delta' = dt
              /\ bodies' = Bodies_update(Bodies_apply_force(loaded, dt), dt)
              /\ log' = log \o <<Entry("parse_json", Zero, f, loaded),
                                 Entry("apply_force", dt, 0, loaded),
                                 Entry("update", dt, 0, bodies')>>
              /\ snap' = loaded.bodies
    /\ UNCHANGED <<pc, result, recorded>>

NextMain ==
    Main_start \/ Main_quit \/ Main_frame_paused \/ Main_frame \/ Main_frame_restart

SpecMain == InitMain /\ [][NextMain]_vars

-----------------------------------------------------------------------------
(* SpecTraj: one body, Body::update called again and again *)

TrajInputs ==
    {Body_new(V3(0, 0, 0), V3(1, 0, -2), Num(1), "runner"),
     Body_new(V3(5, 5, 5), V3(0, 0, 0), Num(1), "sitter")}

TrajDts == {One, Num(2)}

InitTraj ==
    /\ \E body \in TrajInputs : bodies = Bodies_add_body(Bodies_new, body)
    /\ delta \in TrajDts
    /\ log = <<>>
    /\ snap = <<>>
    /\ pc = "caller"
    /\ is_paused = FALSE
    /\ result = NoResult
    /\ recorded = <<>>

BodyUpdate ==
    /\ Len(recorded) < MaxSteps
    /\ bodies' = [bodies EXCEPT !.bodies[1] = Body_update(@, delta)]
    /\ recorded' = Append(recorded, bodies'.bodies[1].position)
    /\ UNCHANGED <<log, snap, pc, is_paused, delta, result>>

NextTraj == BodyUpdate

SpecTraj == InitTraj /\ [][NextTraj]_vars

-----------------------------------------------------------------------------
(* SpecForce: the pure functions of the force model on two bodies *)

ForcePositions == {V3(0, 0, 0), V3(3, 4, 0), V3(0, 0, 1), V3(-2, 1, 2)}

ForceMasses == {Num(1), Num(2)}

InitForce ==
    /\ \E p1 \in ForcePositions, p2 \in ForcePositions,
          m1 \in ForceMasses, m2 \in ForceMasses :
          bodies = Bodies_add_body(
                      Bodies_add_body(Bodies_new, Body_new(p1, V3(1, 2, 0), m1, "a")),
                      Body_new(p2, V3(0, 0, 0), m2, "b"))
    /\ log = <<>>
    /\ snap = <<>>
    /\ pc = "caller"
    /\ is_paused = FALSE
    /\ delta = Zero
    /\ result = NoResult
    /\ recorded = <<>>

Calc_gravitational_force ==
    /\ result.force = None
    /\ result' = [result EXCEPT
                    !.force = Some(gravitational_force(bodies.bodies[1], bodies.bodies[2]))]
    /\ UNCHANGED <<bodies, log, snap, pc, is_paused, delta, recorded>>

Calc_potential_energy ==
    /\ result.pe = None
    /\ result' = [result EXCEPT
                    !.pe = Some(potential_energy(bodies.bodies[1], bodies.bodies[2]))]
    /\ UNCHANGED <<bodies, log, snap, pc, is_paused, delta, recorded>>

Calc_kinetic_energy ==
    /\ result.ke = None
    /\ result' = [result EXCEPT !.ke = Some(kinetic_energy(bodies.bodies[1]))]
    /\ UNCHANGED <<bodies, log, snap, pc, is_paused, delta, recorded>>

NextForce == Calc_gravitational_force \/ Calc_potential_energy \/ Calc_kinetic_energy

SpecForce == InitForce /\ [][NextForce]_vars

-----------------------------------------------------------------------------
(* Definitions the properties are stated with *)

IsNaN(a) == a.k = "nan"

IsFinite(a) == a.k = "fin"

VFinite(a) == IsFinite(a[1]) /\ IsFinite(a[2]) /\ IsFinite(a[3])

VNeg(a) == <<FNeg(a[1]), FNeg(a[2]), FNeg(a[3])>>

RECURSIVE NetForce(_, _, _)
\* the sum of gravitational_force(bs[i], bs[j]) over the j <= n other than i
NetForce(bs, i, n) ==
    IF n = 0 THEN VZero
    ELSE IF n = i THEN NetForce(bs, i, n - 1)
    ELSE VAdd(NetForce(bs, i, n - 1), gravitational_force(bs[i], bs[n]))

\* v + (net force on body i at the positions of bs / mass) * dt
KickedVelocity(bs, i, dt) ==
    VAdd(bs[i].velocity, VScale(VDivS(NetForce(bs, i, Len(bs)), bs[i].mass), dt))

\* every component of v is zero or has the sign of the component of d
Along(v, d) == \A c \in 1..3 : Sgn(v[c].v) = 0 \/ Sgn(v[c].v) = Sgn(d[c].v)

Updates == {i \in 1..Len(log) : log[i].op = "update"}

RECURSIVE SumOver(_, _, _)
\* the sum, in the order of the calls, of field what of the first n calls
\* that are updates
SumOver(q, n, what) ==
    IF n = 0 THEN Zero
    ELSE IF q[n].op = "update" THEN FAdd(SumOver(q, n - 1, what), q[n][what])
    ELSE SumOver(q, n - 1, what)

Min(a, b) == IF a <= b THEN a ELSE b

\* a JSON value that is an array whose first three elements are numbers
IsVec3(value) ==
    /\ value.t = "array"
    /\ Len(value.a) >= 3
    /\ \A c \in 1..3 : value.a[c].t = "number"

\* a record with a string name, position and velocity of three numbers, and
\* a number for its mass
WellFormed(rec) ==
    /\ rec.t = "object"
    /\ rec.name.t = "string"
    /\ IsVec3(rec.position)
    /\ IsVec3(rec.velocity)
    /\ rec.mass.t = "number"

\* the body a well-formed record describes
Described(rec) ==
    [position |-> <<rec.position.a[1].n, rec.position.a[2].n, rec.position.a[3].n>>,
     velocity |-> <<rec.velocity.a[1].n, rec.velocity.a[2].n, rec.velocity.a[3].n>>,
     mass |-> rec.mass.n,
     trajectory |-> <<>>,
     name |-> rec.name.s,
     radius |-> powf15(rec.mass.n)]

RECURSIVE DescribedBy(_, _)
\* the bodies the well-formed ones of the first n records describe, in order
DescribedBy(recs, n) ==
    IF n = 0 THEN <<>>
    ELSE IF WellFormed(recs[n]) THEN Append(DescribedBy(recs, n - 1), Described(recs[n]))
    ELSE DescribedBy(recs, n - 1)

\* the fields of a Bodies value other than its bodies
Scalars(b) == [b EXCEPT !.bodies = <<>>]

-----------------------------------------------------------------------------
(* Properties *)

\* C1: after apply_force(dt) then update(dt), every body i has velocity
\* v_i + (sum over j # i of gravitational_force(i, j) at the pre-tick
\* positions / mass_i) * dt and position p_i + v_i' * dt (the position moves
\* with the updated velocity); two bodies of equal mass, at rest at different
\* places, end the tick with opposite velocities, each directed at the other.
C1_Tick ==
    (/\ Len(log) >= 2
     /\ log[Len(log)].op = "update"
     /\ log[Len(log) - 1].op = "apply_force"
     /\ log[Len(log)].dt = log[Len(log) - 1].dt)
    => LET dt == log[Len(log)].dt
           now == bodies.bodies
       IN  /\ Len(now) = Len(snap)
           /\ \A i \in 1..Len(snap) :
                 /\ now[i].velocity = KickedVelocity(snap, i, dt)
                 /\ now[i].position =
                       VAdd(snap[i].position, VScale(KickedVelocity(snap, i, dt), dt))
           /\ (/\ Len(snap) = 2
               /\ snap[1].mass = snap[2].mass
               /\ snap[1].velocity = VZero
               /\ snap[2].velocity = VZero
               /\ snap[1].position # snap[2].position)
              => /\ VFinite(now[1].velocity)
                 /\ now[1].velocity = VNeg(now[2].velocity)
                 /\ Along(now[1].velocity, VSub(snap[2].position, snap[1].position))
                 /\ Along(now[2].velocity, VSub(snap[1].position, snap[2].position))

\* a tick of dt = 1 on the two equal bodies at rest has ended, and they move
C1_Witness ==
    /\ Len(log) >= 2
    /\ log[Len(log)].op = "update"
    /\ log[Len(log) - 1].op = "apply_force"
    /\ log[Len(log)].dt = One
    /\ log[Len(log) - 1].dt = One
    /\ Len(snap) = 2
    /\ snap[1].mass = snap[2].mass
    /\ snap[1].velocity = VZero
    /\ snap[2].velocity = VZero
    /\ snap[1].position # snap[2].position
    /\ bodies.bodies[1].velocity # VZero
    /\ bodies.bodies[1].position # snap[1].position

\* C2: apply_force(dt) changes velocities only: positions, masses, radii,
\* names, trajectories, the number and order of the bodies and every energy
\* and time field stay as they were, and the velocity of every body i, the
\* later ones included, is the one the forces at the positions before the
\* call give.
C2_ApplyForceFrame ==
    [][(Len(log') = Len(log) + 1 /\ log'[Len(log')].op = "apply_force")
       => /\ Len(bodies'.bodies) = Len(bodies.bodies)
          /\ \A i \in 1..Len(bodies.bodies) :
                bodies'.bodies[i] =
                   [bodies.bodies[i] EXCEPT
                       !.velocity = KickedVelocity(bodies.bodies, i, log'[Len(log')].dt)]
          /\ Scalars(bodies') = Scalars(bodies)]_vars

\* apply_force(1) has just changed the velocity of a body that is not the first
C2_Witness ==
    /\ Len(log) >= 1
    /\ log[Len(log)].op = "apply_force"
    /\ log[Len(log)].dt = One
    /\ Len(bodies.bodies) >= 2
    /\ Len(snap) = Len(bodies.bodies)
    /\ \E i \in 2..Len(snap) :
          /\ bodies.bodies[i].velocity # snap[i].velocity
          /\ bodies.bodies[1].velocity # snap[1].velocity

\* C3: after n calls of Body::update the trajectory holds the last
\* min(n, 500) positions recorded, oldest first; past 500 calls its length is
\* 500, its newest entry is the current position and its oldest entry is the
\* position recorded at call n - 499.
C3_TrajectoryCap ==
    LET n == Len(recorded)
        body == bodies.bodies[1]
        kept == Len(body.trajectory)
    IN  /\ kept = Min(n, TrajectoryCap)
        /\ \A k \in 1..kept : body.trajectory[k] = recorded[n - kept + k]
        /\ n > 0 => body.trajectory[kept] = body.position
        /\ n > TrajectoryCap =>
              /\ kept = TrajectoryCap
              /\ body.trajectory[1] = recorded[n - (TrajectoryCap - 1)]

\* more than 500 calls were made and the first position recorded is gone
C3_Witness ==
    /\ Len(recorded) > TrajectoryCap + 1
    /\ Len(bodies.bodies[1].trajectory) = TrajectoryCap
    /\ bodies.bodies[1].trajectory[1] # recorded[1]
    /\ bodies.bodies[1].trajectory[1] # recorded[2]

\* C4: for two bodies at the same position gravitational_force and
\* potential_energy both return finite values.
C4_CoincidentFinite ==
    (/\ bodies.bodies[1].position = bodies.bodies[2].position
     /\ result.force # None
     /\ result.pe # None)
    => /\ VFinite(result.force[1])
       /\ IsFinite(result.pe[1])

\* C5: parse_json on a well-formed list appends the bodies its well-formed
\* records describe, in their order, after the bodies already there, skips
\* every other record, and changes nothing else.
C5_LoaderPartial ==
    [][(/\ Len(log') = Len(log) + 1
        /\ log'[Len(log')].op = "parse_json"
        /\ Files[log'[Len(log')].file].status = "ok"
        /\ Files[log'[Len(log')].file].json.t = "array")
       => LET recs == Files[log'[Len(log')].file].json.a
          IN  /\ bodies'.bodies = bodies.bodies \o DescribedBy(recs, Len(recs))
              /\ Scalars(bodies') = Scalars(bodies)]_vars

\* the three records, the second without a mass, were read into a collection
\* that held a body: records 1 and 3 follow it
C5_Witness ==
    /\ Len(log) >= 2
    /\ log[Len(log)].op = "parse_json"
    /\ Files[log[Len(log)].file].path = "missing_mass.json"
    /\ Len(bodies.bodies) = 3
    /\ bodies.bodies[1].name = "added 1"
    /\ bodies.bodies[2].name = "Body 1"
    /\ bodies.bodies[3].name = "Body 3"

\* C6: parse_json on a file that cannot be opened, cannot be read or is not
\* JSON leaves the Bodies value exactly as it was.
C6_SourceFailure ==
    [][(/\ Len(log') = Len(log) + 1
        /\ log'[Len(log')].op = "parse_json"
        /\ Files[log'[Len(log')].file].status # "ok")
       => bodies' = bodies]_vars

\* a load failed on a collection that holds bodies and has been updated
C6_Witness ==
    /\ Len(log) >= 3
    /\ log[Len(log)].op = "parse_json"
    /\ Files[log[Len(log)].file].status = "parse_error"
    /\ Len(bodies.bodies) > 0
    /\ bodies.total_time # Zero

\* C7: when a load leaves no body, main does not crash: it is in its loop
\* (or has left it through Escape) with zero bodies.
C7_EmptyLoadKeepsRunning ==
    (pc # "start" /\ Len(bodies.bodies) = 0) => pc \in {"loop", "exited"}

\* C8: a Bodies value holding exactly one body has potential_energy and
\* total_potential_energy equal to 0.
C8_SingleBodyPotential ==
    Len(bodies.bodies) = 1 =>
        /\ bodies.potential_energy = Zero
        /\ bodies.total_potential_energy = Zero

\* one body, moved by an update after an apply_force
C8_Witness ==
    /\ Len(bodies.bodies) = 1
    /\ Len(log) >= 3
    /\ log[Len(log)].op = "update"
    /\ \E i \in 1..Len(log) : log[i].op = "apply_force"
    /\ bodies.kinetic_energy # Zero

\* C9: total_kinetic_energy, total_potential_energy and total_time are the
\* sums, over the updates made so far, of the kinetic_energy and
\* potential_energy those updates set and of their dt; the calls between
\* them (apply_force, add_body, parse_json) add nothing.
C9_RunningSums ==
    /\ bodies.total_kinetic_energy = SumOver(log, Len(log), "ke")
    /\ bodies.total_potential_energy = SumOver(log, Len(log), "pe")
    /\ bodies.total_time = SumOver(log, Len(log), "dt")

\* two updates of dt = 1 with another call between them; the second found
\* kinetic energy
C9_Witness ==
    /\ Len(log) >= 3
    /\ log[Len(log)].op = "update"
    /\ log[Len(log) - 1].op # "update"
    /\ log[Len(log) - 2].op = "update"
    /\ log[Len(log)].dt = One
    /\ log[Len(log) - 2].dt = One
    /\ log[Len(log)].ke # Zero
    /\ bodies.total_time = Num(2)

\* C10 as stated: before any update (total_time = 0) the time-averaged
\* energies are NaN, the result of 0.0 / 0.0.
C10_NaNBeforeFirstTick ==
    (Updates = {} /\ bodies.total_time = Zero)
    => /\ IsNaN(bodies.time_averaged_kinetic_energy)
       /\ IsNaN(bodies.time_averaged_potential_energy)

\* C10 amended: before any update the time-averaged energies are 0.0, the
\* value Bodies::new gives them; an average is NaN only after an update, and
\* is NaN after updates that leave total_time = 0 and the total at 0.
C10_ZeroBeforeFirstTick ==
    /\ Updates = {} =>
          /\ bodies.time_averaged_kinetic_energy = Zero
          /\ bodies.time_averaged_potential_energy = Zero
    /\ (Updates # {} /\ bodies.total_time = Zero) =>
          /\ bodies.total_kinetic_energy = Zero =>
                IsNaN(bodies.time_averaged_kinetic_energy)
          /\ bodies.total_potential_energy = Zero =>
                IsNaN(bodies.time_averaged_potential_energy)

\* bodies were loaded and apply_force called, and no update yet
C10_Witness ==
    /\ Updates = {}
    /\ Len(bodies.bodies) >= 2
    /\ Len(log) >= 2
    /\ log[Len(log)].op = "apply_force"

====
